---- MODULE Spec2Model ----
(***************************************************************************)
(* The keyset-paginated, ranked image query of the Chirp gallery:          *)
(* portfolio.get_all_images_with_person_matches                            *)
(* (backend/sql/get_image_with_person_matches.sql) over the tables         *)
(* portfolio.image and portfolio.detected_face, together with the caller   *)
(* that trims the extra row and builds next_cursor.                        *)
(*                                                                         *)
(* Scalars: UUIDs are integers 1.. (only their order matters), timestamps  *)
(* are integers, text is a sequence of one-character strings, cosine       *)
(* distances are integers in tenths (5 stands for 0.5).  SQL's NULL is the *)
(* value NULL (NullText in a text column), and predicates are evaluated in *)
(* SQL's three-valued logic ("t", "f", "u"); a WHERE clause keeps the rows *)
(* whose predicate is "t".                                                 *)
(***************************************************************************)
EXTENDS Integers, Sequences, FiniteSets, TLC

VARIABLES
    image,          \* table portfolio.image: set of rows
    detected_face,  \* table portfolio.detected_face: set of rows
    req,            \* parameters (limit, sort_person_id, search) of the traversal in progress
    resp,           \* response to the last page request of the traversal
    pages,          \* pages received so far in the traversal (each a sequence of image rows)
    issued,         \* next_cursor values received so far in the traversal, in order
    phase,          \* "idle" | "paging" | "done" | "probed"
    wrote,          \* kinds of writes committed since the traversal started
    baseline,       \* ids of the eligible images when the traversal started
    fresh,          \* images inserted after page `after`, newer than the cursor that page issued
    probe,          \* the last out-of-sequence request (reused or malformed cursor) and its response
    rpc,            \* the last direct call of the RPC since the last write: parameters, rows returned
    gallery,        \* the gallery route: search box text, debounce timer, URL search parameter
    client,         \* the gallery's infinite queries: active key, cached pages, requests in flight
    scrape,         \* useScrapeJob: the job's status on the server, the last fetched one, the timer
    job,            \* table portfolio.scrape_job and the increment_scrape_job calls in progress
    auth            \* the 401 interceptor: token, cached auth state, route, redirect guard

vars == <<image, detected_face, req, resp, pages, issued, phase, wrote, baseline, fresh, probe,
          rpc, gallery, client, scrape, job, auth>>

-----------------------------------------------------------------------------
(* Bounds of the model *)

MaxImages == 3
MaxFaces == 3
MaxFacesMixed == 2
MaxTime == 2
MaxLimit == 3
MaxEnc == 2
MaxPersons == 2
ClientLimit == 1
MaxCalls == 3
MaxRequests == 4

(* Program constants *)

NULL == -1
NullText == <<"NULL">>
DefaultThreshold == 5
DefaultTopN == 3

ImageIds == 1..MaxImages
FaceIds == 1..MaxFaces
Times == 1..MaxTime
Encodings == 0..MaxEnc
Persons == {1}
MatchEncodings == 0..(MaxEnc - 1)
Filenames == {<<"a">>, <<"B">>}
Searches == {NullText, <<>>, <<"b">>}

-----------------------------------------------------------------------------
(* SQL three-valued logic *)

IsNull(a) == a = NULL

Not3(x) == IF x = "u" THEN "u" ELSE IF x = "t" THEN "f" ELSE "t"

And3(x, y) ==
    IF x = "f" \/ y = "f" THEN "f"
    ELSE IF x = "u" \/ y = "u" THEN "u"
    ELSE "t"

Or3(x, y) ==
    IF x = "t" \/ y = "t" THEN "t"
    ELSE IF x = "u" \/ y = "u" THEN "u"
    ELSE "f"

Bool3(b) == IF b THEN "t" ELSE "f"

IsNull3(a) == Bool3(IsNull(a))

IsNotNull3(a) == Bool3(~IsNull(a))

Eq3(a, b) == IF IsNull(a) \/ IsNull(b) THEN "u" ELSE Bool3(a = b)

Lt3(a, b) == IF IsNull(a) \/ IsNull(b) THEN "u" ELSE Bool3(a < b)

Gt3(a, b) == IF IsNull(a) \/ IsNull(b) THEN "u" ELSE Bool3(a > b)

-----------------------------------------------------------------------------
(* Text: ILIKE with the pattern '%' || p_search || '%' *)

Lower(c) == IF c = "A" THEN "a" ELSE IF c = "B" THEN "b" ELSE c

RECURSIVE LikeMatch(_, _)
\* text ILIKE pat: % matches any run of characters, _ any one character,
\* any other character matches itself without regard to case.
LikeMatch(text, pat) ==
    IF pat = <<>> THEN text = <<>>
    ELSE IF Head(pat) = "%"
         THEN LikeMatch(text, Tail(pat))
              \/ (text # <<>> /\ LikeMatch(Tail(text), pat))
    ELSE IF text = <<>> THEN FALSE
    ELSE /\ (Head(pat) = "_" \/ Lower(Head(pat)) = Lower(Head(text)))
         /\ LikeMatch(Tail(text), Tail(pat))

ILike3(text, search) ==
    IF text = NullText \/ search = NullText THEN "u"
    ELSE Bool3(LikeMatch(text, <<"%">> \o search \o <<"%">>))

-----------------------------------------------------------------------------
(* Vector distance: encoding <=> encoding, in tenths *)

CosDist(e1, e2) == IF e1 >= e2 THEN 3 * (e1 - e2) ELSE 3 * (e2 - e1)

MinOf(S) ==
    IF S = {} THEN NULL
    ELSE CHOOSE m \in S : \A x \in S : m <= x

-----------------------------------------------------------------------------
(* portfolio.get_all_images_with_person_matches: the request parameters *)

\* The function's parameters; p_threshold and p_top_n keep their defaults.
Params(limit, cur, sort_person_id, search) ==
    [p_threshold |-> DefaultThreshold,
     p_top_n |-> DefaultTopN,
     p_limit |-> limit,
     p_cursor_created_at |-> cur.created_at,
     p_cursor_id |-> cur.id,
     p_sort_person_id |-> sort_person_id,
     p_cursor_is_tagged |-> cur.is_tagged,
     p_cursor_min_distance |-> cur.min_distance,
     p_search |-> search]

\* No cursor: every cursor parameter keeps its DEFAULT NULL.
NoCursor == [created_at |-> NULL, id |-> NULL, is_tagged |-> NULL, min_distance |-> NULL]

-----------------------------------------------------------------------------
(* Person-sort helper CTEs *)

\* ref_faces: the encodings of the faces assigned to the sort person.
ref_faces(p) ==
    {f.encoding : f \in {g \in detected_face : Eq3(g.person_id, p.p_sort_person_id) = "t"}}

\* tagged_image_ids: the images with a face assigned to the sort person.
tagged_image_ids(p) ==
    {f.image_id : f \in {g \in detected_face : Eq3(g.person_id, p.p_sort_person_id) = "t"}}

\* A slip of the aggregate: MAX in place of MIN.
GroupMinDistance_Max(image_id, p) ==
    LET D == {CosDist(df.encoding, rf) :
                df \in {g \in detected_face : g.image_id = image_id}, rf \in ref_faces(p)}
    IN  IF D = {} THEN NULL ELSE CHOOSE m \in D : \A x \in D : m >= x

\* MIN(df.encoding <=> rf.encoding) over the cross join, for one image_id.
GroupMinDistance(image_id, p) ==
    MinOf({CosDist(df.encoding, rf) :
             df \in {g \in detected_face : g.image_id = image_id}, rf \in ref_faces(p)})

\* A slip of image_min_distances: the HAVING clause left out.
image_min_distances_NoHaving(p) ==
    {[image_id |-> iid, min_distance |-> GroupMinDistance(iid, p)] :
        iid \in {x \in {f.image_id : f \in {g \in detected_face : ~IsNull(g.image_id)}} :
                   ref_faces(p) # {}}}

\* image_min_distances: one row per image_id whose group minimum is below the threshold.
image_min_distances(p) ==
    {[image_id |-> iid, min_distance |-> GroupMinDistance(iid, p)] :
        iid \in {x \in {f.image_id : f \in {g \in detected_face : ~IsNull(g.image_id)}} :
                   /\ ref_faces(p) # {}
                   /\ Lt3(GroupMinDistance(x, p), p.p_threshold) = "t"}}

-----------------------------------------------------------------------------
(* Main pagination *)

\* Two slips of the default-sort cursor predicate: created_at compared with <=
\* (rows tied with the cursor pass whatever their id), and the position taken
\* from the id alone (a random UUID as the sort key).
DefaultCursorPredicate_NotStrict(i, p) ==
    Or3(IsNotNull3(p.p_sort_person_id),
    Or3(IsNull3(p.p_cursor_created_at),
    Or3(Not3(Gt3(i.created_at, p.p_cursor_created_at)),
        And3(Eq3(i.created_at, p.p_cursor_created_at), Gt3(i.id, p.p_cursor_id)))))

DefaultCursorPredicate_IdOnly(i, p) ==
    Or3(IsNotNull3(p.p_sort_person_id),
    Or3(IsNull3(p.p_cursor_created_at),
        Gt3(i.id, p.p_cursor_id)))

\* The default-sort cursor predicate of base_images.
DefaultCursorPredicate(i, p) ==
    Or3(IsNotNull3(p.p_sort_person_id),
    Or3(IsNull3(p.p_cursor_created_at),
    Or3(Lt3(i.created_at, p.p_cursor_created_at),
        And3(Eq3(i.created_at, p.p_cursor_created_at), Gt3(i.id, p.p_cursor_id)))))

\* The search filter of base_images.
SearchPredicate(i, p) ==
    Or3(Bool3(p.p_search = NullText),
    Or3(ILike3(i.source_url, p.p_search), ILike3(i.filename, p.p_search)))

\* The sort metrics base_images selects for image i (the two LEFT JOINs).
SortIsTagged(i, p) ==
    IF ~IsNull(p.p_sort_person_id)
    THEN (IF i.id \in tagged_image_ids(p) THEN 1 ELSE 0)
    ELSE NULL

SortMinDistance(i, p) ==
    IF ~IsNull(p.p_sort_person_id)
    THEN (IF \E r \in image_min_distances(p) : r.image_id = i.id
          THEN (CHOOSE r \in image_min_distances(p) : r.image_id = i.id).min_distance
          ELSE NULL)
    ELSE NULL

base_images(p) ==
    {[id |-> i.id,
      created_at |-> i.created_at,
      is_tagged |-> SortIsTagged(i, p),
      min_distance |-> SortMinDistance(i, p)] :
        i \in {j \in image :
                 And3(Bool3(j.source_url # NullText),
                 And3(SearchPredicate(j, p), DefaultCursorPredicate(j, p))) = "t"}}

\* The person-sort cursor predicate of paginated.
PersonCursorPredicate(r, p) ==
    Or3(IsNull3(p.p_sort_person_id),
    Or3(IsNull3(p.p_cursor_id),
    Or3(Lt3(r.is_tagged, p.p_cursor_is_tagged),
        And3(Eq3(r.is_tagged, p.p_cursor_is_tagged),
             Or3(And3(IsNotNull3(p.p_cursor_min_distance),
                  And3(IsNotNull3(r.min_distance),
                       Gt3(r.min_distance, p.p_cursor_min_distance))),
             Or3(And3(IsNotNull3(p.p_cursor_min_distance), IsNull3(r.min_distance)),
             Or3(And3(IsNull3(p.p_cursor_min_distance),
                  And3(IsNull3(r.min_distance), Gt3(r.id, p.p_cursor_id))),
                 And3(IsNotNull3(r.min_distance),
                 And3(IsNotNull3(p.p_cursor_min_distance),
                 And3(Eq3(r.min_distance, p.p_cursor_min_distance),
                      Gt3(r.id, p.p_cursor_id)))))))))))

\* One ORDER BY key: -1 when a sorts first, 1 when b sorts first, 0 on a tie.
\* NULLS LAST in both directions.
CmpKey(a, b, desc) ==
    IF IsNull(a) /\ IsNull(b) THEN 0
    ELSE IF IsNull(a) THEN 1
    ELSE IF IsNull(b) THEN -1
    ELSE IF a = b THEN 0
    ELSE IF (a < b) = desc THEN 1
    ELSE -1

\* The ORDER BY of paginated: the CASE expressions are NULL for the inactive mode.
OrderKeys(r, p) ==
    <<IF ~IsNull(p.p_sort_person_id) THEN r.is_tagged ELSE NULL,
      IF ~IsNull(p.p_sort_person_id) THEN r.min_distance ELSE NULL,
      IF IsNull(p.p_sort_person_id) THEN r.created_at ELSE NULL,
      r.id>>

\* A slip of the ORDER BY: min_distance sorted DESC.
OrderBefore_DistanceDesc(a, b, p) ==
    LET ka == OrderKeys(a, p)
        kb == OrderKeys(b, p)
        c1 == CmpKey(ka[1], kb[1], TRUE)
        c2 == CmpKey(ka[2], kb[2], TRUE)
        c3 == CmpKey(ka[3], kb[3], TRUE)
        c4 == CmpKey(ka[4], kb[4], FALSE)
    IN  \/ c1 = -1
        \/ c1 = 0 /\ c2 = -1
        \/ c1 = 0 /\ c2 = 0 /\ c3 = -1
        \/ c1 = 0 /\ c2 = 0 /\ c3 = 0 /\ c4 = -1

OrderBefore(a, b, p) ==
    LET ka == OrderKeys(a, p)
        kb == OrderKeys(b, p)
        c1 == CmpKey(ka[1], kb[1], TRUE)
        c2 == CmpKey(ka[2], kb[2], FALSE)
        c3 == CmpKey(ka[3], kb[3], TRUE)
        c4 == CmpKey(ka[4], kb[4], FALSE)
    IN  \/ c1 = -1
        \/ c1 = 0 /\ c2 = -1
        \/ c1 = 0 /\ c2 = 0 /\ c3 = -1
        \/ c1 = 0 /\ c2 = 0 /\ c3 = 0 /\ c4 = -1

RECURSIVE OrderBy(_, _)
\* The rows of S as the sequence ORDER BY gives (ids are unique, so it is one sequence).
OrderBy(S, p) ==
    IF S = {} THEN <<>>
    ELSE LET first == CHOOSE r \in S : \A s \in S \ {r} : OrderBefore(r, s, p)
         IN  <<first>> \o OrderBy(S \ {first}, p)

\* LIMIT n: PostgreSQL raises "LIMIT must not be negative" for n < 0.
LimitRows(rows, n) ==
    IF n < 0 THEN [error |-> TRUE, rows |-> <<>>]
    ELSE IF Len(rows) <= n THEN [error |-> FALSE, rows |-> rows]
    ELSE [error |-> FALSE, rows |-> SubSeq(rows, 1, n)]

\* A slip of paginated: LIMIT p_limit, no extra row to detect a next page.
paginated_NoExtraRow(p) ==
    LimitRows(OrderBy({r \in base_images(p) : PersonCursorPredicate(r, p) = "t"}, p),
              p.p_limit)

\* paginated: cursor filter, ORDER BY, LIMIT p_limit + 1.
paginated(p) ==
    LimitRows(OrderBy({r \in base_images(p) : PersonCursorPredicate(r, p) = "t"}, p),
              p.p_limit + 1)

-----------------------------------------------------------------------------
(* Final output: the paginated images joined with their faces and, per face, *)
(* the closest persons.  The result is a set of flat rows; the ORDER BY of   *)
(* the final SELECT orders them by the image's sort key only.                *)

\* The null-extended sides of the two LEFT JOINs.
NullFace == [id |-> NULL, image_id |-> NULL, encoding |-> NULL, person_id |-> NULL]
NullMatch == [person_id |-> NULL, distance |-> NULL]

\* df.encoding <=> ref.encoding; NULL when a side is NULL.
Distance(e1, e2) == IF IsNull(e1) \/ IsNull(e2) THEN NULL ELSE CosDist(e1, e2)

\* A slip of the join: faces inner-joined, an image without a face has no row.
LeftJoinFaces_Inner(image_id) ==
    {df \in detected_face : Eq3(df.image_id, image_id) = "t"}

\* LEFT JOIN portfolio.detected_face df ON df.image_id = p.id
LeftJoinFaces(image_id) ==
    LET F == {df \in detected_face : Eq3(df.image_id, image_id) = "t"}
    IN  IF F = {} THEN {NullFace} ELSE F

\* A slip of the filter: distance <= p_threshold.
WithinThreshold_NotStrict(df, ref, p) ==
    And3(IsNotNull3(ref.person_id),
         Not3(Gt3(Distance(df.encoding, ref.encoding), p.p_threshold)))

\* The WHERE of the lateral subquery, for one reference face.
WithinThreshold(df, ref, p) ==
    And3(IsNotNull3(ref.person_id),
         Lt3(Distance(df.encoding, ref.encoding), p.p_threshold))

\* GROUP BY pr.id, pr.name with MIN(distance): one row per person that has a
\* reference face within the threshold of df (the person row exists: person_id
\* is a foreign key).
match_groups(df, p) ==
    {[person_id |-> pid,
      distance |-> MinOf({Distance(df.encoding, ref.encoding) :
                            ref \in {r \in detected_face :
                                       r.person_id = pid /\ WithinThreshold(df, r, p) = "t"}})] :
        pid \in {r.person_id : r \in {x \in detected_face : WithinThreshold(df, x, p) = "t"}}}

\* ORDER BY distance LIMIT n over the groups G: every result the ordering
\* allows.  Groups tied in distance are in no defined order, so which of them
\* the LIMIT keeps is not determined.
TopN(G, n) ==
    IF Cardinality(G) <= n THEN {G}
    ELSE {S \in SUBSET G :
            /\ Cardinality(S) = n
            /\ \A a \in S, b \in G \ S : a.distance <= b.distance}

\* The lateral subquery for the face df: its possible results.
matches(df, p) == TopN(match_groups(df, p), p.p_top_n)

\* LEFT JOIN LATERAL (...) matches ON true
LeftJoinMatches(M) == IF M = {} THEN {NullMatch} ELSE M

\* The faces the final SELECT joins to the images of paginated.
OutputFaces(rows) == UNION {LeftJoinFaces(rows[k].id) : k \in 1..Len(rows)}

\* One result of the lateral subquery for every joined face.
MatchChoices(rows, p) ==
    {c \in [OutputFaces(rows) -> UNION {matches(df, p) : df \in OutputFaces(rows)}] :
        \A df \in OutputFaces(rows) : c[df] \in matches(df, p)}

\* The flat rows of the final SELECT, with the lateral results c.
FlatRows(rows, c) ==
    UNION {UNION {{[image_id |-> rows[k].id,
                    filename |-> (CHOOSE i \in image : i.id = rows[k].id).filename,
                    source_url |-> (CHOOSE i \in image : i.id = rows[k].id).source_url,
                    created_at |-> rows[k].created_at,
                    sort_is_tagged |-> rows[k].is_tagged,
                    sort_min_distance |-> rows[k].min_distance,
                    face_id |-> df.id,
                    face_encoding |-> df.encoding,
                    assigned_person_id |-> df.person_id,
                    matched_person_id |-> m.person_id,
                    match_distance |-> m.distance] : m \in LeftJoinMatches(c[df])} :
                  df \in LeftJoinFaces(rows[k].id)} :
           k \in 1..Len(rows)}

\* A slip of the final ORDER BY: p.id ASC left out.
FinalOrderKeys_NoImageId(r, p) ==
    <<IF ~IsNull(p.p_sort_person_id) THEN r.sort_is_tagged ELSE NULL,
      IF ~IsNull(p.p_sort_person_id) THEN r.sort_min_distance ELSE NULL,
      IF IsNull(p.p_sort_person_id) THEN r.created_at ELSE NULL,
      NULL>>

\* The ORDER BY keys of the final SELECT, for a flat row.
FinalOrderKeys(r, p) ==
    <<IF ~IsNull(p.p_sort_person_id) THEN r.sort_is_tagged ELSE NULL,
      IF ~IsNull(p.p_sort_person_id) THEN r.sort_min_distance ELSE NULL,
      IF IsNull(p.p_sort_person_id) THEN r.created_at ELSE NULL,
      r.image_id>>

\* The final ORDER BY puts flat row a before flat row b; rows it does not
\* order (equal keys) come in any order.
FinalOrderBefore(a, b, p) ==
    LET ka == FinalOrderKeys(a, p)
        kb == FinalOrderKeys(b, p)
        c1 == CmpKey(ka[1], kb[1], TRUE)
        c2 == CmpKey(ka[2], kb[2], FALSE)
        c3 == CmpKey(ka[3], kb[3], TRUE)
        c4 == CmpKey(ka[4], kb[4], FALSE)
    IN  \/ c1 = -1
        \/ c1 = 0 /\ c2 = -1
        \/ c1 = 0 /\ c2 = 0 /\ c3 = -1
        \/ c1 = 0 /\ c2 = 0 /\ c3 = 0 /\ c4 = -1

\* The function's result: every outcome it can have on the current tables.
\* A negative LIMIT raises an error when the LIMIT is executed.
get_all_images_with_person_matches(p) ==
    LET result == paginated(p)
    IN  IF result.error \/ (result.rows # <<>> /\ p.p_top_n < 0)
        THEN {[status |-> "error", page |-> <<>>, rows |-> {}]}
        ELSE {[status |-> "ok", page |-> result.rows, rows |-> FlatRows(result.rows, c)] :
                c \in MatchChoices(result.rows, p)}

-----------------------------------------------------------------------------
(* The caller of the RPC (backend get_all_images): trims to limit and builds *)
(* next_cursor from the extra row's sort fields.                             *)

IsPersonSort(sort_person_id) == ~IsNull(sort_person_id)

\* The cursor object of a row: {created_at, id} in newest mode,
\* {is_tagged, min_distance, id} in person mode.
BuildCursor(row, sort_person_id) ==
    IF IsPersonSort(sort_person_id)
    THEN [created_at |-> NULL, id |-> row.id,
          is_tagged |-> row.is_tagged, min_distance |-> row.min_distance]
    ELSE [created_at |-> row.created_at, id |-> row.id,
          is_tagged |-> NULL, min_distance |-> NULL]

\* One page request: the cursor's fields go to the RPC as individual parameters;
\* more than limit images back means a next page, the extra row is trimmed and
\* its sort fields become next_cursor.
GetImages(limit, cur, sort_person_id, search) ==
    LET result == paginated(Params(limit, cur, sort_person_id, search))
        rows == result.rows
    IN  IF result.error
        THEN [status |-> "error", images |-> <<>>, next_cursor |-> NoCursor]
        ELSE IF Len(rows) > limit
        THEN [status |-> "ok",
              images |-> SubSeq(rows, 1, limit),
              next_cursor |-> BuildCursor(rows[limit + 1], sort_person_id)]
        ELSE [status |-> "ok", images |-> rows, next_cursor |-> NoCursor]

\* The full eligible list of a request, under its ordering (one unpaginated fetch).
FullList(sort_person_id, search) ==
    OrderBy(base_images(Params(0, NoCursor, sort_person_id, search)),
            Params(0, NoCursor, sort_person_id, search))

-----------------------------------------------------------------------------
(* State *)

NoRequest == [limit |-> 0, sort_person_id |-> NULL, search |-> NullText]
NoResponse == [status |-> "none", images |-> <<>>, next_cursor |-> NoCursor]
NoProbe == [kind |-> "none", cursor |-> NoCursor, sort_person_id |-> NULL, response |-> NoResponse]

\* No RPC call made yet.
NoCall == [status |-> "none", params |-> Params(0, NoCursor, NULL, NullText),
           page |-> <<>>, rows |-> {}, repeated |-> FALSE, prev |-> {}]

\* The gallery route as mounted at /chirp/gallery without search parameters:
\* searchInput is search ?? '', and the debounce effect has armed its timer.
GalleryMounted == [searchInput |-> <<>>, pending |-> TRUE, search |-> NullText,
                   fetched |-> FALSE]

\* The gallery's infinite queries, one per queryKey ['images', {sortPersonId,
\* search}]: pages holds, per page received, its image count and next_cursor;
\* inflight the page requests not yet answered; sent every request made.
QueryKeys == {[sortPersonId |-> NULL, search |-> NullText],
              [sortPersonId |-> 1, search |-> NullText],
              [sortPersonId |-> NULL, search |-> <<"b">>]}
NoQuery == [pages |-> <<>>, inflight |-> {}]
ClientInit == [mounted |-> FALSE,
               key |-> [sortPersonId |-> NULL, search |-> NullText],
               cache |-> [k \in QueryKeys |-> NoQuery],
               sent |-> {}]

\* useScrapeJob before its first fetch: server is the job's status in the
\* database, data the last fetched status, interval the armed refetch timer
\* (0: none), wait the time since the last fetch, poll the last interval poll.
ScrapeInit == [server |-> "pending", mounted |-> FALSE, data |-> "none",
               interval |-> 0, wait |-> 0,
               poll |-> [after |-> "none", gap |-> 0],
               invalidated |-> {}]

\* Table portfolio.scrape_job (its nullable counter total_images) and the
\* increment_scrape_job calls: none made yet.
JobCalls == 1..MaxCalls
JobInit == [rows |-> {},
            calls |-> [c \in JobCalls |->
                         [pc |-> "idle", job |-> 0, column |-> "total_images",
                          amount |-> 0, seen |-> NULL]]]

\* The page after login: a token is stored, the auth query holds true, no
\* request is in flight and the module-level guard redirectingToLogin is false.
AuthInit == [token |-> TRUE, authCache |-> TRUE, route |-> "/chirp/gallery",
             redirectingToLogin |-> FALSE, navigating |-> 0,
             inflight |-> 0, sent |-> 0,
             last |-> [kind |-> "none", onLogin |-> FALSE, redirecting |-> FALSE,
                       started |-> FALSE]]

Init ==
    /\ image = {}
    /\ detected_face = {}
    /\ req = NoRequest
    /\ resp = NoResponse
    /\ pages = <<>>
    /\ issued = <<>>
    /\ phase = "idle"
    /\ wrote = {}
    /\ baseline = {}
    /\ fresh = {}
    /\ probe = NoProbe
    /\ rpc = NoCall
    /\ gallery = GalleryMounted
    /\ client = ClientInit
    /\ scrape = ScrapeInit
    /\ job = JobInit
    /\ auth = AuthInit

InTraversal == phase # "idle"

\* source_url is unique and NOT NULL (backend/sql/image.sql).
SourceUrl(id) == <<"u", ToString(id)>>

-----------------------------------------------------------------------------
(* Writes of the collaborators (ingestion pipeline, tagging UI) *)

InsertImage(id, created_at, filename) ==
    /\ id \notin {i.id : i \in image}
    /\ image' = image \cup {[id |-> id, created_at |-> created_at,
                             source_url |-> SourceUrl(id), filename |-> filename]}
    /\ wrote' = IF InTraversal THEN wrote \cup {"image"} ELSE wrote
    /\ fresh' = IF /\ phase = "paging"
                   /\ ~IsPersonSort(req.sort_person_id)
                   /\ created_at > resp.next_cursor.created_at
                THEN fresh \cup {[id |-> id, after |-> Len(pages)]}
                ELSE fresh
    /\ rpc' = NoCall
    /\ UNCHANGED <<detected_face, req, resp, pages, issued, phase, baseline, probe, gallery,
                   client, scrape, job, auth>>

InsertFace(image_id, encoding) ==
    /\ image_id \in {i.id : i \in image}
    /\ detected_face' = detected_face \cup
          {[id |-> Cardinality(detected_face) + 1, image_id |-> image_id,
            encoding |-> encoding, person_id |-> NULL]}
    /\ wrote' = IF InTraversal THEN wrote \cup {"face"} ELSE wrote
    /\ rpc' = NoCall
    /\ UNCHANGED <<image, req, resp, pages, issued, phase, baseline, fresh, probe, gallery,
                   client, scrape, job, auth>>

TagFace(face_id, person_id) ==
    /\ \E f \in detected_face :
          /\ f.id = face_id
          /\ f.person_id # person_id
          /\ detected_face' = (detected_face \ {f}) \cup {[f EXCEPT !.person_id = person_id]}
    /\ wrote' = IF InTraversal THEN wrote \cup {"face"} ELSE wrote
    /\ rpc' = NoCall
    /\ UNCHANGED <<image, req, resp, pages, issued, phase, baseline, fresh, probe, gallery,
                   client, scrape, job, auth>>

-----------------------------------------------------------------------------
(* Page requests *)

PhaseAfter(r) == IF r.status = "ok" /\ r.next_cursor # NoCursor THEN "paging" ELSE "done"

\* The first request of a traversal: no cursor.
StartTraversal(limit, sort_person_id, search) ==
    LET r == GetImages(limit, NoCursor, sort_person_id, search)
    IN  /\ req' = [limit |-> limit, sort_person_id |-> sort_person_id, search |-> search]
        /\ resp' = r
        /\ pages' = <<r.images>>
        /\ issued' = IF r.next_cursor # NoCursor THEN <<r.next_cursor>> ELSE <<>>
        /\ phase' = PhaseAfter(r)
        /\ wrote' = {}
        /\ baseline' = {x.id : x \in base_images(Params(limit, NoCursor, sort_person_id, search))}
        /\ fresh' = {}
        /\ probe' = NoProbe
        /\ UNCHANGED <<image, detected_face, rpc, gallery,
                   client, scrape, job, auth>>

\* The next request: the last next_cursor, verbatim, with the same parameters.
FetchNextPage ==
    /\ phase = "paging"
    /\ LET r == GetImages(req.limit, resp.next_cursor, req.sort_person_id, req.search)
       IN  /\ resp' = r
           /\ pages' = Append(pages, r.images)
           /\ issued' = IF r.next_cursor # NoCursor THEN Append(issued, r.next_cursor) ELSE issued
           /\ phase' = PhaseAfter(r)
    /\ UNCHANGED <<image, detected_face, req, wrote, baseline, fresh, probe, rpc, gallery,
                   client, scrape, job, auth>>

\* The last next_cursor submitted under the other sort mode.
ReuseCursorOtherMode(sort_person_id) ==
    /\ phase = "paging"
    /\ IsPersonSort(sort_person_id) # IsPersonSort(req.sort_person_id)
    /\ probe' = [kind |-> "mode", cursor |-> resp.next_cursor,
                 sort_person_id |-> sort_person_id,
                 response |-> GetImages(req.limit, resp.next_cursor, sort_person_id, req.search)]
    /\ phase' = "probed"
    /\ UNCHANGED <<image, detected_face, req, resp, pages, issued, wrote, baseline, fresh,
                   rpc, gallery,
                   client, scrape, job, auth>>

\* A direct call of the RPC with the given threshold and top_n, from the start
\* of the sequence; it returns one of the results the query allows.  A call
\* that repeats the previous one (same parameters, no write since: a write
\* resets rpc) keeps the previous rows in prev.
CallRpc(threshold, top_n, limit, sort_person_id) ==
    LET p == [Params(limit, NoCursor, sort_person_id, NullText)
                EXCEPT !.p_threshold = threshold, !.p_top_n = top_n]
        again == rpc.status # "none" /\ rpc.params = p
    IN  /\ \E out \in get_all_images_with_person_matches(p) :
              rpc' = [status |-> out.status, params |-> p,
                      page |-> out.page, rows |-> out.rows, repeated |-> again,
                      prev |-> IF again THEN rpc.rows ELSE {}]
        /\ UNCHANGED <<image, detected_face, req, resp, pages, issued, phase, wrote,
                       baseline, fresh, probe, gallery,
                   client, scrape, job, auth>>

\* The user edits the search box: setSearchInput; the debounce effect re-arms
\* its 300 ms timer.
TypeSearch(text) ==
    /\ text # gallery.searchInput
    /\ gallery' = [gallery EXCEPT !.searchInput = text, !.pending = TRUE]
    /\ UNCHANGED <<image, detected_face, req, resp, pages, issued, phase, wrote,
                   baseline, fresh, probe, rpc,
                   client, scrape, job, auth>>

\* A slip of the navigate: search: searchInput, the empty string sent as typed.
RouteSearch_AsTyped(searchInput) == searchInput

\* searchInput || undefined: the empty string is falsy.
RouteSearch(searchInput) == IF searchInput = <<>> THEN NullText ELSE searchInput

\* The debounce timer fires: navigate with search: searchInput || undefined.
\* The sync effect then sets searchInput to search ?? '', the value it has.
DebounceFire ==
    /\ gallery.pending
    /\ gallery' = [gallery EXCEPT !.search = RouteSearch(gallery.searchInput),
                                  !.searchInput = IF RouteSearch(gallery.searchInput) = NullText
                                                  THEN <<>>
                                                  ELSE RouteSearch(gallery.searchInput),
                                  !.pending = FALSE]
    /\ UNCHANGED <<image, detected_face, req, resp, pages, issued, phase, wrote,
                   baseline, fresh, probe, rpc,
                   client, scrape, job, auth>>

\* ImageMasonry's useImages({sortPersonId, search}) fetches its first page with
\* the route's search parameter.
GalleryFetch(limit, sort_person_id) ==
    /\ gallery' = [gallery EXCEPT !.fetched = TRUE]
    /\ LET r == GetImages(limit, NoCursor, sort_person_id, gallery.search)
       IN  /\ req' = [limit |-> limit, sort_person_id |-> sort_person_id,
                      search |-> gallery.search]
           /\ resp' = r
           /\ pages' = <<r.images>>
           /\ issued' = IF r.next_cursor # NoCursor THEN <<r.next_cursor>> ELSE <<>>
           /\ phase' = PhaseAfter(r)
           /\ wrote' = {}
           /\ baseline' = {x.id : x \in base_images(Params(limit, NoCursor, sort_person_id,
                                                            gallery.search))}
           /\ fresh' = {}
           /\ probe' = NoProbe
    /\ UNCHANGED <<image, detected_face, rpc,
                   client, scrape, job, auth>>

-----------------------------------------------------------------------------
(* The gallery client: useImages (useInfiniteQuery) and ImageMasonry *)

serverVars == <<image, detected_face, req, resp, pages, issued, phase, wrote, baseline,
                fresh, probe, rpc, gallery>>

\* A slip of the queryKey: ['images'] alone, one query for every sort and search.
CacheKey_ImagesOnly(key) == [sortPersonId |-> NULL, search |-> NullText]

\* queryKey: ['images', { sortPersonId, search }]
CacheKey(key) == key

\* The query the mounted ImageMasonry observes.
ActiveQuery == client.cache[CacheKey(client.key)]

\* getNextPageParam: lastPage.next_cursor ?? null (NoCursor stands for null).
NextPageParam(q) == q.pages[Len(q.pages)].next_cursor

\* hasNextPage: there is data and getNextPageParam of the last page is not null.
HasNextPage(q) == q.pages # <<>> /\ NextPageParam(q) # NoCursor

\* A slip of the fetch effect's guard: the in-flight next-page fetch is not seen.
IsFetchingNextPage_Never(q) == FALSE

\* isFetchingNextPage: a fetch of a page after the first is in flight.
IsFetchingNextPage(q) == \E r \in q.inflight : r.n > 1

RECURSIVE ImageCount(_)
\* images.length: pages.flatMap(page => page.images).
ImageCount(ps) == IF ps = <<>> THEN 0 ELSE Head(ps).count + ImageCount(Tail(ps))

\* virtualCount: one more row, the loader, while there are more pages.
VirtualCount(q) == IF HasNextPage(q) THEN ImageCount(q.pages) + 1 ELSE ImageCount(q.pages)

\* The route renders ImageMasonry with sortPersonId and search: useImages
\* observes the query of that key and, when it has no data and is not being
\* fetched, requests its first page with initialPageParam null (no cursor).
\* Data already cached is not refetched (staleTime Infinity, refetchOnMount false).
ShowGallery(sortPersonId, search) ==
    LET key == [sortPersonId |-> sortPersonId, search |-> search]
        q == client.cache[CacheKey(key)]
        first == [n |-> 1, cursor |-> NoCursor]
    IN  /\ ~client.mounted \/ key # client.key
        /\ client' =
              IF q.pages = <<>> /\ q.inflight = {}
              THEN [client EXCEPT !.mounted = TRUE, !.key = key,
                                  !.cache[CacheKey(key)].inflight = {first},
                                  !.sent = @ \cup {[key |-> key, n |-> 1, cursor |-> NoCursor]}]
              ELSE [client EXCEPT !.mounted = TRUE, !.key = key]
        /\ UNCHANGED <<serverVars, scrape, job, auth>>

\* ImageMasonry's effect with the last row visible: fetchNextPage() when
\* hasNextPage && !isFetchingNextPage; the request carries the last page's
\* next_cursor and the props' sort_person_id and search.
FetchNextPageEffect ==
    LET q == ActiveQuery
        cur == NextPageParam(q)
    IN  /\ client.mounted
        /\ HasNextPage(q)
        /\ ~IsFetchingNextPage(q)
        /\ client' = [client EXCEPT
              !.cache[CacheKey(client.key)].inflight =
                  @ \cup {[n |-> Len(q.pages) + 1 + Cardinality(@), cursor |-> cur]},
              !.sent = @ \cup {[key |-> client.key,
                                n |-> Len(q.pages) + 1 + Cardinality(q.inflight),
                                cursor |-> cur]}]
        /\ UNCHANGED <<serverVars, scrape, job, auth>>

\* The backend answers a page request of the query of key k.
ReceivePage(k) ==
    /\ \E r \in client.cache[CacheKey(k)].inflight :
          LET answer == GetImages(ClientLimit, r.cursor, k.sortPersonId, k.search)
          IN  client' = [client EXCEPT
                !.cache[CacheKey(k)].inflight = @ \ {r},
                !.cache[CacheKey(k)].pages =
                    Append(@, [count |-> Len(answer.images),
                               next_cursor |-> answer.next_cursor])]
    /\ UNCHANGED <<serverVars, scrape, job, auth>>

-----------------------------------------------------------------------------
(* Scrape job polling: useScrapeJob *)

\* type ScrapeJobStatus
ScrapeJobStatus == {"pending", "retry_pending", "scraping", "processing",
                    "completed", "failed"}

TerminalStatus == {"completed", "failed"}

\* A slip of refetchInterval: one period for every status that is not terminal.
RefetchInterval_OnePeriod(status) == IF status \in TerminalStatus THEN 0 ELSE 2000

\* refetchInterval: false (0 here) once completed or failed, 3000 ms while
\* processing, 2000 ms otherwise, also while no data has been fetched ("none").
RefetchInterval(status) ==
    IF status \in TerminalStatus THEN 0
    ELSE IF status = "processing" THEN 3000
    ELSE 2000

\* The effect on hook.data?.status: when it has changed to 'completed', the
\* images and scrape-jobs queries are invalidated.
CompletedEffect(before, after, invalidated) ==
    IF after = "completed" /\ before # "completed"
    THEN invalidated \cup {"images", "scrape-jobs"}
    ELSE invalidated

\* The state of the hook after a fetch that succeeded (ok) or failed: the
\* data, the timer recomputed by refetchInterval, the effect on the status.
AfterFetch(ok, polled) ==
    LET data == IF ok THEN scrape.server ELSE scrape.data
    IN  [scrape EXCEPT !.mounted = TRUE,
                       !.data = data,
                       !.interval = RefetchInterval(data),
                       !.wait = 0,
                       !.poll = polled,
                       !.invalidated = CompletedEffect(scrape.data, data, @)]

\* The scraper and the face worker move the job to another status.
WorkerSetsStatus(status) ==
    /\ status # scrape.server
    /\ scrape' = [scrape EXCEPT !.server = status]
    /\ UNCHANGED <<serverVars, client, job, auth>>

\* The component using useScrapeJob(jobId) mounts: the query fetches the job.
MountScrapeJob(ok) ==
    /\ ~scrape.mounted
    /\ scrape' = AfterFetch(ok, scrape.poll)
    /\ UNCHANGED <<serverVars, client, job, auth>>

\* One second passes while the refetch timer is armed and has not expired.
ScrapeTick ==
    /\ scrape.mounted
    /\ scrape.interval # 0
    /\ scrape.wait < scrape.interval
    /\ scrape' = [scrape EXCEPT !.wait = @ + 1000]
    /\ UNCHANGED <<serverVars, client, job, auth>>

\* The refetch timer expires: the query polls getScrapeJob(jobId).
PollScrapeJob(ok) ==
    /\ scrape.mounted
    /\ scrape.interval # 0
    /\ scrape.wait >= scrape.interval
    /\ scrape' = AfterFetch(ok, [after |-> scrape.data, gap |-> scrape.wait])
    /\ UNCHANGED <<serverVars, client, job, auth>>

NextScrape ==
    \/ \E status \in ScrapeJobStatus : WorkerSetsStatus(status)
    \/ \E ok \in BOOLEAN : MountScrapeJob(ok)
    \/ ScrapeTick
    \/ \E ok \in BOOLEAN : PollScrapeJob(ok)

SpecScrape == Init /\ [][NextScrape]_vars

-----------------------------------------------------------------------------
(* Scrape job counters: portfolio.increment_scrape_job *)

JobIds == {1, 2}
Amounts == {1, 2}

\* The counter columns of scrape_job: total_images is nullable, the others
\* (processed_count stands for them) are NOT NULL DEFAULT 0.
Columns == {"total_images", "processed_count"}
InitialCount(column) == IF column = "total_images" THEN NULL ELSE 0

\* COALESCE(value, 0)
Coalesce0(value) == IF value = NULL THEN 0 ELSE value

JobRow(id) == CHOOSE r \in job.rows : r.id = id

\* A slip of the UPDATE's read: the value of the statement's snapshot is kept
\* after waiting for the row lock.
RowVersionAtLock_Snapshot(snapshot, latest) == snapshot

\* The row version an UPDATE works on once it holds the row lock: the latest
\* committed one, re-read after a wait for a concurrent writer.
RowVersionAtLock(snapshot, latest) == latest

\* INSERT INTO portfolio.scrape_job: the counters take their defaults.
CreateScrapeJob(id) ==
    /\ id \notin {r.id : r \in job.rows}
    /\ job' = [job EXCEPT !.rows = @ \cup
                  {[id |-> id, counts |-> [col \in Columns |-> InitialCount(col)]]}]
    /\ UNCHANGED <<serverVars, client, scrape, auth>>

\* A worker calls increment_scrape_job(p_job_id, p_column, p_amount): the
\* UPDATE scans for the row WHERE id = $2 in its snapshot; no row, no change.
BeginIncrement(c, p_job_id, p_column, p_amount) ==
    /\ job.calls[c].pc = "idle"
    /\ job' = [job EXCEPT !.calls[c] =
                  IF p_job_id \in {r.id : r \in job.rows}
                  THEN [pc |-> "scanned", job |-> p_job_id, column |-> p_column,
                        amount |-> p_amount, seen |-> JobRow(p_job_id).counts[p_column]]
                  ELSE [pc |-> "missed", job |-> p_job_id, column |-> p_column,
                        amount |-> p_amount, seen |-> NULL]]
    /\ UNCHANGED <<serverVars, client, scrape, auth>>

\* The UPDATE takes the row lock once no other transaction holds it.
LockRow(c) ==
    LET call == job.calls[c]
    IN  /\ call.pc = "scanned"
        /\ \A d \in JobCalls : ~(job.calls[d].pc = "locked" /\ job.calls[d].job = call.job)
        /\ job' = [job EXCEPT !.calls[c].pc = "locked",
                               !.calls[c].seen =
                                   RowVersionAtLock(call.seen,
                                                    JobRow(call.job).counts[call.column])]
        /\ UNCHANGED <<serverVars, client, scrape, auth>>

\* SET %I = COALESCE(%I, 0) + $1 is written and the call's transaction
\* commits, releasing the row lock.
CommitIncrement(c) ==
    LET call == job.calls[c]
        row == JobRow(call.job)
    IN  /\ call.pc = "locked"
        /\ job' = [job EXCEPT
              !.rows = (@ \ {row}) \cup
                  {[row EXCEPT !.counts[call.column] = Coalesce0(call.seen) + call.amount]},
              !.calls[c].pc = "done"]
        /\ UNCHANGED <<serverVars, client, scrape, auth>>

NextJob ==
    \/ \E id \in JobIds : CreateScrapeJob(id)
    \/ \E c \in JobCalls, id \in JobIds, col \in Columns, a \in Amounts :
          BeginIncrement(c, id, col, a)
    \/ \E c \in JobCalls : LockRow(c)
    \/ \E c \in JobCalls : CommitIncrement(c)

SpecJob == Init /\ [][NextJob]_vars

-----------------------------------------------------------------------------
(* The 401 response interceptor of main.tsx *)

LoginRoute == "/chirp/login"
AppRoutes == {"/chirp/gallery", "/chirp/upload"}

\* A slip of the interceptor's test: the guard redirectingToLogin is not read.
MayRedirect_Unguarded(isOnLoginRoute, redirecting) == ~isOnLoginRoute

\* if (!isOnLoginRoute && !redirectingToLogin)
MayRedirect(isOnLoginRoute, redirecting) == ~isOnLoginRoute /\ ~redirecting

\* The page sends a request through the api instance.
SendRequest ==
    /\ auth.sent < MaxRequests
    /\ auth' = [auth EXCEPT !.sent = @ + 1, !.inflight = @ + 1]
    /\ UNCHANGED <<serverVars, client, scrape, job>>

\* A response arrives. On 401 the interceptor clears the token, sets the
\* cached ['auth'] to false and, when not on the login route and no redirect
\* is in progress, sets the guard and starts router.navigate to the login
\* route; any other response leaves the state alone.
ReceiveResponse(status) ==
    LET isOnLoginRoute == auth.route = LoginRoute
        start == MayRedirect(isOnLoginRoute, auth.redirectingToLogin)
    IN  /\ auth.inflight > 0
        /\ auth' =
              IF status = 401
              THEN [auth EXCEPT !.inflight = @ - 1,
                                !.token = FALSE,
                                !.authCache = FALSE,
                                !.redirectingToLogin = IF start THEN TRUE ELSE @,
                                !.navigating = IF start THEN @ + 1 ELSE @,
                                !.last = [kind |-> "401", onLogin |-> isOnLoginRoute,
                                          redirecting |-> auth.redirectingToLogin,
                                          started |-> start]]
              ELSE [auth EXCEPT !.inflight = @ - 1]
        /\ UNCHANGED <<serverVars, client, scrape, job>>

\* The router commits the location of a navigation in progress.
LocationCommits ==
    /\ auth.navigating > 0
    /\ auth.route # LoginRoute
    /\ auth' = [auth EXCEPT !.route = LoginRoute]
    /\ UNCHANGED <<serverVars, client, scrape, job>>

\* The promise of router.navigate settles, resolved or rejected: finally
\* releases the guard.
NavigationSettles ==
    /\ auth.navigating > 0
    /\ auth' = [auth EXCEPT !.navigating = @ - 1, !.redirectingToLogin = FALSE]
    /\ UNCHANGED <<serverVars, client, scrape, job>>

\* The user logs in on the login route: a token is stored, the auth query
\* holds true and the page returns to the gallery.
LogIn ==
    /\ auth.route = LoginRoute
    /\ auth.navigating = 0
    /\ auth' = [auth EXCEPT !.token = TRUE, !.authCache = TRUE,
                             !.route = "/chirp/gallery",
                             !.last = [kind |-> "login", onLogin |-> TRUE,
                                       redirecting |-> FALSE, started |-> FALSE]]
    /\ UNCHANGED <<serverVars, client, scrape, job>>

\* The user opens another page: its beforeLoad lets an authenticated user in
\* and redirects any other to the login route.
UserNavigates(to) ==
    /\ to # auth.route
    /\ auth' = [auth EXCEPT !.route = IF auth.authCache THEN to ELSE LoginRoute]
    /\ UNCHANGED <<serverVars, client, scrape, job>>

NextAuth ==
    \/ SendRequest
    \/ \E to \in AppRoutes : UserNavigates(to)
    \/ \E status \in {200, 401} : ReceiveResponse(status)
    \/ LocationCommits
    \/ NavigationSettles
    \/ LogIn

SpecAuth == Init /\ [][NextAuth]_vars

-----------------------------------------------------------------------------
\* The cursor fields of the mode: the shape a well-formed cursor has.
CursorFields(sort_person_id) ==
    IF IsPersonSort(sort_person_id) THEN {"is_tagged", "id"} ELSE {"created_at", "id"}

DropFields(cur, dropped) ==
    [f \in DOMAIN cur |-> IF f \in dropped THEN NULL ELSE cur[f]]

\* The last next_cursor with some, not all, of its required fields missing.
SubmitMalformedCursor(dropped) ==
    /\ phase = "paging"
    /\ dropped # {}
    /\ dropped # CursorFields(req.sort_person_id)
    /\ dropped \subseteq CursorFields(req.sort_person_id)
    /\ probe' = [kind |-> "malformed", cursor |-> DropFields(resp.next_cursor, dropped),
                 sort_person_id |-> req.sort_person_id,
                 response |-> GetImages(req.limit, DropFields(resp.next_cursor, dropped),
                                        req.sort_person_id, req.search)]
    /\ phase' = "probed"
    /\ UNCHANGED <<image, detected_face, req, resp, pages, issued, wrote, baseline, fresh,
                   rpc, gallery,
                   client, scrape, job, auth>>

-----------------------------------------------------------------------------
(* Specifications.  A traversal is one gallery session: it starts from the  *)
(* idle state.  Each specification draws the writes and the requests from   *)
(* the sets its claims are about.                                           *)

DefaultFilename == <<"a">>

\* Both sort modes over images and faces; the collaborators write only
\* before the traversal starts (no writes between fetches).
Next ==
    \/ /\ phase = "idle"
       /\ \E id \in ImageIds, t \in Times : InsertImage(id, t, DefaultFilename)
    \/ /\ phase = "idle"
       /\ Cardinality(detected_face) < MaxFacesMixed
       /\ \E iid \in ImageIds, e \in Encodings : InsertFace(iid, e)
    \/ /\ phase = "idle"
       /\ \E fid \in FaceIds, pid \in Persons \cup {NULL} : TagFace(fid, pid)
    \/ /\ phase = "idle"
       /\ \E l \in 1..MaxLimit, sp \in Persons \cup {NULL} : StartTraversal(l, sp, NullText)
    \/ FetchNextPage
    \/ \E sp \in Persons \cup {NULL} : ReuseCursorOtherMode(sp)
    \/ \E d \in SUBSET {"created_at", "id", "is_tagged"} : SubmitMalformedCursor(d)

Spec == Init /\ [][Next]_vars

\* Newest mode with a search filter, every limit from 0, and images inserted
\* at any moment, also between the page fetches of the traversal.  One image
\* more than in the other specifications: an image inserted during a traversal
\* of MaxImages images leaves a page to fetch after it.
NewestImageIds == 1..(MaxImages + 1)

NextNewest ==
    \/ \E id \in NewestImageIds, t \in Times, fn \in Filenames : InsertImage(id, t, fn)
    \/ /\ phase = "idle"
       /\ \E l \in 0..MaxLimit, s \in Searches : StartTraversal(l, NULL, s)
    \/ FetchNextPage

SpecNewest == Init /\ [][NextNewest]_vars

\* Person-ranked mode over images that differ in their faces only; the
\* collaborators write only before the traversal starts.
NextPerson ==
    \/ /\ phase = "idle"
       /\ \E id \in ImageIds : InsertImage(id, 1, DefaultFilename)
    \/ /\ phase = "idle"
       /\ Cardinality(detected_face) < MaxFaces
       /\ \E iid \in ImageIds, e \in Encodings : InsertFace(iid, e)
    \/ /\ phase = "idle"
       /\ \E fid \in FaceIds, pid \in Persons \cup {NULL} : TagFace(fid, pid)
    \/ /\ phase = "idle"
       /\ \E l \in 1..MaxLimit, sp \in Persons : StartTraversal(l, sp, NullText)
    \/ FetchNextPage

SpecPerson == Init /\ [][NextPerson]_vars

\* The RPC called directly with every threshold and top_n, between the writes
\* of the tagging UI; several persons have tagged faces.  The faces are those
\* of the first image, the other image has none.
MatchImageIds == 1..(MaxImages - 1)
MatchPersons == 1..MaxPersons
Thresholds == {3, DefaultThreshold}
TopNs == {0, 1, DefaultTopN}

NextMatches ==
    \/ \E id \in MatchImageIds : InsertImage(id, 1, DefaultFilename)
    \/ /\ Cardinality(detected_face) < MaxFaces
       /\ \E e \in MatchEncodings : InsertFace(1, e)
    \/ \E fid \in FaceIds, pid \in MatchPersons \cup {NULL} : TagFace(fid, pid)
    \/ \E th \in Thresholds, tn \in TopNs : CallRpc(th, tn, 1, NULL)

SpecMatches == Init /\ [][NextMatches]_vars

\* Both sort modes with a search filter, sent to the API directly or set by
\* the gallery's search box; the collaborators write only before the traversal.
SearchFilenames == {<<"a">>, <<"B">>}
ApiSearches == {NullText, <<>>, <<"b">>, <<"_">>, <<"%">>}
SearchInputs == {<<>>, <<"b">>}

NextSearch ==
    \/ /\ phase = "idle"
       /\ \E id \in ImageIds, fn \in SearchFilenames : InsertImage(id, 1, fn)
    \/ /\ phase = "idle"
       /\ detected_face = {}
       /\ \E iid \in ImageIds : InsertFace(iid, 0)
    \/ /\ phase = "idle"
       /\ \E fid \in FaceIds, pid \in Persons \cup {NULL} : TagFace(fid, pid)
    \/ /\ phase = "idle"
       /\ \E text \in SearchInputs : TypeSearch(text)
    \/ /\ phase = "idle"
       /\ DebounceFire
    \/ /\ phase = "idle"
       /\ \E l \in 1..MaxLimit, sp \in Persons \cup {NULL} : GalleryFetch(l, sp)
    \/ /\ phase = "idle"
       /\ \E l \in 1..MaxLimit, sp \in Persons \cup {NULL}, s \in ApiSearches :
             StartTraversal(l, sp, s)
    \/ FetchNextPage

SpecSearch == Init /\ [][NextSearch]_vars

\* Person-ranked mode with images and faces written at any moment, also
\* between the page fetches of the traversal.
NextPersonLive ==
    \/ \E id \in ImageIds : InsertImage(id, 1, DefaultFilename)
    \/ /\ Cardinality(detected_face) < MaxFacesMixed
       /\ \E iid \in ImageIds, e \in Encodings : InsertFace(iid, e)
    \/ /\ phase = "idle"
       /\ \E fid \in FaceIds, pid \in Persons \cup {NULL} : TagFace(fid, pid)
    \/ /\ phase = "idle"
       /\ \E l \in 1..MaxLimit, sp \in Persons : StartTraversal(l, sp, NullText)
    \/ FetchNextPage

SpecPersonLive == Init /\ [][NextPersonLive]_vars

\* Both sort modes over one image more, so that a traversal issues several
\* cursors; the collaborators write only before the traversal starts.
NextLong ==
    \/ /\ phase = "idle"
       /\ \E id \in NewestImageIds, t \in Times : InsertImage(id, t, DefaultFilename)
    \/ /\ phase = "idle"
       /\ Cardinality(detected_face) < MaxFacesMixed
       /\ \E iid \in NewestImageIds, e \in MatchEncodings : InsertFace(iid, e)
    \/ /\ phase = "idle"
       /\ \E fid \in FaceIds, pid \in Persons \cup {NULL} : TagFace(fid, pid)
    \/ /\ phase = "idle"
       /\ \E l \in 1..(MaxLimit - 1), sp \in Persons \cup {NULL} : StartTraversal(l, sp, NullText)
    \/ FetchNextPage

SpecLong == Init /\ [][NextLong]_vars

\* The RPC called directly in both sort modes with its default threshold and
\* top_n, over images that differ in time and faces.
NextRows ==
    \/ \E id \in ImageIds, t \in Times : InsertImage(id, t, DefaultFilename)
    \/ /\ Cardinality(detected_face) < MaxFacesMixed
       /\ \E iid \in ImageIds, e \in MatchEncodings : InsertFace(iid, e)
    \/ \E fid \in FaceIds, pid \in Persons \cup {NULL} : TagFace(fid, pid)
    \/ \E l \in 1..(MaxLimit - 1), sp \in Persons \cup {NULL} :
          CallRpc(DefaultThreshold, DefaultTopN, l, sp)

SpecRows == Init /\ [][NextRows]_vars

\* The gallery client over a table filled before the gallery is opened: the
\* route changes sort and search at any time, the last row comes into view at
\* any time, and answers arrive in any order.
NextClient ==
    \/ /\ ~client.mounted
       /\ Cardinality(image) < MaxImages
       /\ \E f \in Filenames :
             InsertImage(Cardinality(image) + 1, Cardinality(image) + 1, f)
    \/ /\ ~client.mounted
       /\ Cardinality(detected_face) < MaxFaces
       /\ InsertFace(Cardinality(detected_face) + 1, 0)
    \/ /\ ~client.mounted
       /\ \E fid \in FaceIds : TagFace(fid, 1)
    \/ \E k \in QueryKeys : ShowGallery(k.sortPersonId, k.search)
    \/ FetchNextPageEffect
    \/ \E k \in QueryKeys : ReceivePage(k)

SpecClient == Init /\ [][NextClient]_vars

-----------------------------------------------------------------------------
(* What a traversal has returned *)

RECURSIVE Concat(_)
\* The pages of a traversal, concatenated.
Concat(ps) == IF ps = <<>> THEN <<>> ELSE Head(ps) \o Concat(Tail(ps))

RowIds(rows) == [k \in 1..Len(rows) |-> rows[k].id]

ReturnedIds == {Concat(pages)[k].id : k \in 1..Len(Concat(pages))}

NoRepeats(seq) == \A j, k \in 1..Len(seq) : j # k => seq[j] # seq[k]

Finished == phase = "done" /\ resp.status = "ok"

\* The ranking attributes of an image, read off the tables directly.
HasTaggedFace(id, person) ==
    \E f \in detected_face : f.image_id = id /\ f.person_id = person

QualifyingDistances(id, person) ==
    {CosDist(f.encoding, g.encoding) :
        f \in {x \in detected_face : x.image_id = id},
        g \in {y \in detected_face : y.person_id = person}}
    \cap 0..(DefaultThreshold - 1)

-----------------------------------------------------------------------------
(* Claims *)

\* C1: newest mode, fixed search, limit >= 1, no writes between fetches: the
\* pages of a finished traversal, concatenated, are the full eligible list in
\* (created_at DESC, id ASC) order, every eligible image on some page.
C1_NewestPagesAreFullList ==
    (Finished /\ ~IsPersonSort(req.sort_person_id) /\ req.limit >= 1 /\ wrote = {})
        => Concat(pages) = FullList(req.sort_person_id, req.search)

\* C2: person-ranked mode, fixed search, limit >= 1, no writes between fetches:
\* each cursor resumes exactly after its page's last image, so the pages of a
\* finished traversal, concatenated, are the full eligible list in
\* (is_tagged DESC, min_distance ASC NULLS LAST, id ASC) order, with no gap.
C2_PersonPagesAreFullList ==
    (Finished /\ IsPersonSort(req.sort_person_id) /\ req.limit >= 1 /\ wrote = {})
        => Concat(pages) = FullList(req.sort_person_id, req.search)

\* C3: in both sort modes, with no writes between fetches, no image id is on
\* two pages of a traversal, nor twice on one page.
C3_NoDuplicateIds ==
    (InTraversal /\ wrote = {}) => NoRepeats(RowIds(Concat(pages)))

C3_Witness ==
    /\ Finished
    /\ wrote = {}
    /\ IsPersonSort(req.sort_person_id)
    /\ Len(pages) >= 2
    /\ \A k \in 1..Len(pages) : pages[k] # <<>>
    /\ \E f \in detected_face : f.person_id = req.sort_person_id

\* C4: a next_cursor holds exactly the sort-key values of the last image
\* returned on its page.
C4_CursorIsLastReturnedRow ==
    (phase = "paging" /\ resp.images # <<>>)
        => resp.next_cursor = BuildCursor(resp.images[Len(resp.images)], req.sort_person_id)

\* C5: newest mode with images inserted between the page fetches: a finished
\* traversal returns no image id twice and skips no image that existed when
\* it started.
C5_InsertsNeitherDuplicateNorSkip ==
    (Finished /\ ~IsPersonSort(req.sort_person_id) /\ req.limit >= 1 /\ wrote \subseteq {"image"})
        => /\ NoRepeats(RowIds(Concat(pages)))
           /\ baseline \subseteq ReturnedIds

\* C6: newest mode: an image inserted after a cursor was issued, newer than
\* that cursor's created_at, is on no page fetched with that cursor or a later
\* one of the traversal.
C6_NewerInsertNeverOnLaterPage ==
    \A f \in fresh : \A k \in 1..Len(pages) :
        k > f.after => f.id \notin {pages[k][j].id : j \in 1..Len(pages[k])}

C6_Witness ==
    \E f \in fresh :
        /\ Len(pages) > f.after
        /\ pages[Len(pages)] # <<>>
        /\ \E i \in image : i.id = f.id /\ SearchPredicate(i, Params(0, NoCursor, NULL, req.search)) = "t"

\* C7: a cursor of one sort mode submitted under the other mode is rejected:
\* the request returns an error and no page.
C7_ModeMismatchRejected ==
    probe.kind = "mode" => probe.response.status = "error"

\* C8: a request with limit zero or negative is rejected with an error: no
\* images and no next_cursor are returned.
C8_NonPositiveLimitRejected ==
    (InTraversal /\ req.limit <= 0) => resp.status = "error"

\* C9: a cursor with a field of the mode's shape missing is reported as an
\* input validation error, never answered with a page.
C9_MalformedCursorRejected ==
    probe.kind = "malformed" => probe.response.status = "error"

\* C10: person-ranked mode: on every page the images with a face assigned to
\* the target person precede those without; with the same tagged flag, images
\* with a qualifying distance come in ascending distance, before those with
\* none; remaining ties are in ascending id order.
C10_PersonPageOrder ==
    (InTraversal /\ IsPersonSort(req.sort_person_id) /\ wrote = {}) =>
        \A k \in 1..Len(pages) : \A i, j \in 1..Len(pages[k]) :
            i < j =>
                LET a == pages[k][i].id
                    b == pages[k][j].id
                    ta == HasTaggedFace(a, req.sort_person_id)
                    tb == HasTaggedFace(b, req.sort_person_id)
                    da == QualifyingDistances(a, req.sort_person_id)
                    db == QualifyingDistances(b, req.sort_person_id)
                IN  /\ tb => ta
                    /\ (ta = tb /\ db # {}) => (da # {} /\ MinOf(da) <= MinOf(db))
                    /\ (ta = tb /\ MinOf(da) = MinOf(db)) => a < b

C10_Witness ==
    /\ InTraversal
    /\ IsPersonSort(req.sort_person_id)
    /\ wrote = {}
    /\ \E k \in 1..Len(pages) : \E h, i, j \in 1..Len(pages[k]) :
          LET t == pages[k][h].id
              a == pages[k][i].id
              b == pages[k][j].id
          IN  /\ h < i /\ i < j
              /\ HasTaggedFace(t, req.sort_person_id)
              /\ ~HasTaggedFace(a, req.sort_person_id)
              /\ ~HasTaggedFace(b, req.sort_person_id)
              /\ QualifyingDistances(a, req.sort_person_id) # {}
              /\ QualifyingDistances(b, req.sort_person_id) # {}
              /\ MinOf(QualifyingDistances(a, req.sort_person_id))
                    < MinOf(QualifyingDistances(b, req.sort_person_id))
              /\ t > a /\ a > b

\* The cursor the k-th page of the traversal was requested with.
CursorOfPage(k) == IF k = 1 THEN NoCursor ELSE issued[k - 1]

\* The eligible rows of the traversal's request that sort strictly after the
\* position cur in the ordering of the mode (all of them from the start).
EligibleAfter(cur) ==
    LET p == Params(req.limit, NoCursor, req.sort_person_id, req.search)
    IN  {r \in base_images(p) : cur = NoCursor \/ OrderBefore(cur, r, p)}

Ascending(seq) == \A j, k \in 1..Len(seq) : j < k => seq[j] < seq[k]

\* text contains s as a substring, without regard to case.
ContainsCI(text, s) ==
    \E k \in 0..(Len(text) - Len(s)) :
        \A j \in 1..Len(s) : Lower(text[k + j]) = Lower(s[j])

\* The images whose filename or source URL contains s.
ImagesContaining(s) ==
    {i.id : i \in {j \in image : ContainsCI(j.filename, s) \/ ContainsCI(j.source_url, s)}}

-----------------------------------------------------------------------------
(* What a direct call has returned *)

\* The images of the call's page: the first p_limit rows of paginated (the
\* row after them only signals a next page).
PageIds(call) ==
    {call.page[k].id : k \in {j \in 1..Len(call.page) : j <= call.params.p_limit}}

\* The faces on the call's page, read off the table.
PageFaces(call) == {f \in detected_face : f.image_id \in PageIds(call)}

\* The match entries the call reports for a face.
MatchEntries(call, face_id) ==
    {r \in call.rows : r.face_id = face_id /\ ~IsNull(r.matched_person_id)}

\* The persons with a tagged face, and the distance from a face to the
\* nearest tagged face of a person, read off the table.
TaggedPersons == {g.person_id : g \in {x \in detected_face : ~IsNull(x.person_id)}}

PersonDistance(f, person) ==
    MinOf({CosDist(f.encoding, g.encoding) : g \in {x \in detected_face : x.person_id = person}})

\* C11: every face on a page that is assigned to a person P has a match entry
\* for P with distance 0, whatever the tagged faces, the threshold and the
\* top_n of the call.
C11_AssignedFaceMatchesItsPerson ==
    rpc.status = "ok" =>
        \A f \in PageFaces(rpc) :
            ~IsNull(f.person_id) =>
                \E r \in MatchEntries(rpc, f.id) :
                    r.matched_person_id = f.person_id /\ r.match_distance = 0

\* C12: a call that repeats the previous call's parameters with no write in
\* between returns the previous call's result: the same page and the same
\* face and match rows.
C12_RepeatedCallIdentical ==
    rpc.repeated => rpc.rows = rpc.prev

\* C16: every image of paginated is in the output, as exactly one row with
\* null face fields when it has no face; every face of such an image is in
\* the output, with null match fields when no person matches it.
C16_NoImageOrFaceDropped ==
    rpc.status = "ok" =>
        \A k \in 1..Len(rpc.page) :
            LET id == rpc.page[k].id
                faces == {f \in detected_face : f.image_id = id}
                out == {r \in rpc.rows : r.image_id = id}
            IN  /\ out # {}
                /\ faces = {} =>
                      /\ Cardinality(out) = 1
                      /\ \A r \in out : IsNull(r.face_id) /\ IsNull(r.face_encoding)
                                          /\ IsNull(r.assigned_person_id)
                                          /\ IsNull(r.matched_person_id)
                /\ \A f \in faces :
                      /\ \E r \in out : r.face_id = f.id /\ r.face_encoding = f.encoding
                                          /\ r.assigned_person_id = f.person_id
                      /\ MatchEntries(rpc, f.id) = {} =>
                            \E r \in out : r.face_id = f.id /\ IsNull(r.matched_person_id)
                                                /\ IsNull(r.match_distance)

C16_Witness ==
    /\ rpc.status = "ok"
    /\ \E k \in 1..Len(rpc.page) :
          {f \in detected_face : f.image_id = rpc.page[k].id} = {}
    /\ \E f, g \in detected_face :
          /\ f.image_id \in {rpc.page[k].id : k \in 1..Len(rpc.page)}
          /\ g.image_id = f.image_id
          /\ MatchEntries(rpc, f.id) = {}
          /\ MatchEntries(rpc, g.id) # {}

\* C20: for every face on a page the match entries name at most top_n persons
\* (3 by default), one entry per person; each distance is strictly below the
\* threshold and is the least distance from the face to that person's tagged
\* faces; no person left out is nearer than a person reported.
C20_MatchesAreTopN ==
    rpc.status = "ok" =>
        \A f \in PageFaces(rpc) :
            LET M == MatchEntries(rpc, f.id)
                reported == {r.matched_person_id : r \in M}
            IN  /\ Cardinality(reported) <= rpc.params.p_top_n
                /\ Cardinality(M) = Cardinality(reported)
                /\ reported \subseteq TaggedPersons
                /\ \A r \in M :
                      /\ r.match_distance < rpc.params.p_threshold
                      /\ r.match_distance = PersonDistance(f, r.matched_person_id)
                      /\ \A q \in TaggedPersons \ reported :
                            PersonDistance(f, q) >= r.match_distance

C20_Witness ==
    /\ rpc.status = "ok"
    /\ rpc.params.p_top_n = 1
    /\ \E f \in PageFaces(rpc) : \E r \in MatchEntries(rpc, f.id) :
          /\ \E q \in TaggedPersons :
                /\ q # r.matched_person_id
                /\ PersonDistance(f, q) > r.match_distance
                /\ PersonDistance(f, q) < rpc.params.p_threshold
          /\ \E g \in detected_face :
                /\ g.person_id = r.matched_person_id
                /\ CosDist(f.encoding, g.encoding) > r.match_distance

\* C13: with no writes between fetches, every page holds at most limit images;
\* it carries a next_cursor exactly when more than limit eligible images sort
\* after the position it was requested from (the start, without a cursor); when
\* none does, the page is empty, without next_cursor, and not an error.
C13_PageSizeAndNextCursor ==
    (InTraversal /\ wrote = {}) =>
        LET after == EligibleAfter(CursorOfPage(Len(pages)))
        IN  /\ resp.status = "ok"
            /\ Len(resp.images) <= req.limit
            /\ (resp.next_cursor # NoCursor) <=> (Cardinality(after) > req.limit)
            /\ after = {} => (resp.images = <<>> /\ resp.next_cursor = NoCursor)

C13_Witness ==
    /\ InTraversal
    /\ wrote = {}
    /\ IsPersonSort(req.sort_person_id)
    /\ Len(pages) >= 2
    /\ resp.images # <<>>
    /\ resp.next_cursor = NoCursor
    /\ \E f \in detected_face : f.person_id = req.sort_person_id

\* C14: with a search string s the eligible images are exactly those whose
\* filename or source URL contains s as a case-insensitive substring, and no
\* other image is on a page.
C14_SearchIsSubstringFilter ==
    (InTraversal /\ req.search # NullText) =>
        /\ baseline = ImagesContaining(req.search)
        /\ ReturnedIds \subseteq ImagesContaining(req.search)

C17_NoReferenceFaceIsIdOrder ==
    (InTraversal /\ IsPersonSort(req.sort_person_id) /\ wrote = {}
       /\ ~\E f \in detected_face : f.person_id = req.sort_person_id) =>
        /\ resp.status = "ok"
        /\ \A k \in 1..Len(Concat(pages)) :
              Concat(pages)[k].is_tagged = 0 /\ IsNull(Concat(pages)[k].min_distance)
        /\ Ascending(RowIds(Concat(pages)))
        /\ Finished => ReturnedIds = baseline

\* C18: person-ranked mode: an image inserted after the first page was
\* received is not on the second page, which is fetched with the cursor the
\* first page issued.
C18_InsertedImageNotOnNextPage ==
    (InTraversal /\ IsPersonSort(req.sort_person_id) /\ Len(pages) >= 2) =>
        \A j \in 1..Len(pages[2]) : pages[2][j].id \in baseline

\* C19: a cursor issued under one sort mode and submitted under the other
\* gets an error or exactly the response of the same request without cursor.
C19_ReusedCursorErrorOrFirstPage ==
    probe.kind = "mode" =>
        \/ probe.response.status = "error"
        \/ probe.response = GetImages(req.limit, NoCursor, probe.sort_person_id, req.search)

\* C21: with limit >= 1 and no writes between fetches, every next_cursor of a
\* traversal sorts strictly after the one issued before it in the ordering of
\* the mode, and the traversal makes at most as many page requests as there
\* are eligible images (one when there is none).
C21_CursorsAdvance ==
    (InTraversal /\ req.limit >= 1 /\ wrote = {}) =>
        LET p == Params(req.limit, NoCursor, req.sort_person_id, req.search)
        IN  /\ \A k \in 1..(Len(issued) - 1) : OrderBefore(issued[k], issued[k + 1], p)
            /\ Len(pages) <= (IF baseline = {} THEN 1 ELSE Cardinality(baseline))

C21_Witness ==
    /\ Finished
    /\ req.limit >= 1
    /\ wrote = {}
    /\ IsPersonSort(req.sort_person_id)
    /\ Len(issued) >= 2
    /\ issued[1].is_tagged # issued[2].is_tagged

\* C22: with limit >= 1 and no writes between fetches, every page requested
\* with a next_cursor holds at least one image.
C22_NoEmptyTrailingPage ==
    (InTraversal /\ req.limit >= 1 /\ wrote = {}) =>
        \A k \in 2..Len(pages) : pages[k] # <<>>

\* C23: person-ranked mode (the threshold is above 0): every image returned
\* with is_tagged 1 has min_distance 0, and the tagged images of a page are in
\* ascending id order.
C23_TaggedHaveDistanceZero ==
    (InTraversal /\ IsPersonSort(req.sort_person_id) /\ wrote = {}) =>
        \A k \in 1..Len(pages) : \A i \in 1..Len(pages[k]) :
            pages[k][i].is_tagged = 1 =>
                /\ pages[k][i].min_distance = 0
                /\ \A j \in 1..Len(pages[k]) :
                      (i < j /\ pages[k][j].is_tagged = 1) => pages[k][i].id < pages[k][j].id

C23_Witness ==
    /\ InTraversal
    /\ IsPersonSort(req.sort_person_id)
    /\ wrote = {}
    /\ \E k \in 1..Len(pages) : \E i, j \in 1..Len(pages[k]) :
          /\ i < j
          /\ pages[k][i].is_tagged = 1
          /\ pages[k][j].is_tagged = 1
          /\ \E f \in detected_face :
                /\ f.image_id = pages[k][j].id
                /\ f.person_id # req.sort_person_id
                /\ \A g \in detected_face :
                      g.person_id = req.sort_person_id => CosDist(f.encoding, g.encoding) > 0

\* C24: the ranking attributes the query joins onto an image are those of the
\* per-image definition: is_tagged is 1 exactly when a face of the image is
\* assigned to the target person, and min_distance is the least distance from
\* a face of the image to a face of that person that is strictly below the
\* threshold, absent when there is none.
C24_RankingMatchesPerImageDefinition ==
    (InTraversal /\ IsPersonSort(req.sort_person_id) /\ wrote = {}) =>
        \A k \in 1..Len(Concat(pages)) :
            LET r == Concat(pages)[k]
            IN  /\ r.is_tagged = (IF HasTaggedFace(r.id, req.sort_person_id) THEN 1 ELSE 0)
                /\ r.min_distance = MinOf(QualifyingDistances(r.id, req.sort_person_id))

C24_Witness ==
    /\ InTraversal
    /\ IsPersonSort(req.sort_person_id)
    /\ wrote = {}
    /\ \E a, b, c \in 1..Len(Concat(pages)) :
          /\ Concat(pages)[a].is_tagged = 1
          /\ Concat(pages)[b].is_tagged = 0 /\ Concat(pages)[b].min_distance > 0
          /\ IsNull(Concat(pages)[c].min_distance)
          /\ \E f \in detected_face : f.image_id = Concat(pages)[c].id

\* The position of an image in the ranked order of the call's images.
PagePos(call, image_id) == CHOOSE k \in 1..Len(call.page) : call.page[k].id = image_id

\* C25: the final ORDER BY orders any two flat rows of different images, in
\* the ranked order of their images, and leaves only rows of one image
\* unordered: in every order the rows can be returned in, the rows of an image
\* are contiguous and image ids first occur in ranked order, so grouping the
\* rows by first-seen image id keeps the ranking.
C25_FlatRowsFollowRanking ==
    rpc.status = "ok" =>
        \A a, b \in rpc.rows :
            IF a.image_id = b.image_id
            THEN ~FinalOrderBefore(a, b, rpc.params)
            ELSE FinalOrderBefore(a, b, rpc.params)
                    <=> (PagePos(rpc, a.image_id) < PagePos(rpc, b.image_id))

C25_Witness ==
    /\ rpc.status = "ok"
    /\ IsPersonSort(rpc.params.p_sort_person_id)
    /\ \E a, b, c \in rpc.rows :
          /\ a.image_id = b.image_id /\ a # b
          /\ c.image_id < a.image_id
          /\ PagePos(rpc, a.image_id) < PagePos(rpc, c.image_id)
          /\ PagePos(rpc, c.image_id) <= rpc.params.p_limit

-----------------------------------------------------------------------------
\* C26: the gallery client never sends a cursor obtained for one
\* (sortPersonId, search) pair in a request for another pair: the first request
\* of each pair's query has no cursor, every later request of that query
\* carries the next_cursor of the page before it in the same query, and the
\* pair on display has had its own first request.
C26_CursorStaysWithItsQuery ==
    /\ \A s \in client.sent :
          LET q == client.cache[s.key]
          IN  IF s.n = 1
              THEN s.cursor = NoCursor
              ELSE /\ Len(q.pages) >= s.n - 1
                   /\ s.cursor = q.pages[s.n - 1].next_cursor
                   /\ s.cursor # NoCursor
    /\ client.mounted =>
          \E s \in client.sent : s.key = client.key /\ s.n = 1 /\ s.cursor = NoCursor

\* Two different pairs have each sent a second-page request with a cursor.
C26_Witness ==
    \E s, t \in client.sent :
        /\ s.key # t.key
        /\ s.n = 2 /\ t.n = 2
        /\ s.cursor # t.cursor

\* C27: ImageMasonry requests pages one at a time in cursor order: a query
\* never has two requests in flight, a next-page request is for the page after
\* the last one received and carries that page's non-null next_cursor, and
\* once a page with next_cursor null has arrived the query makes no further
\* request and shows no loader row.
C27_OneNextPageFetchAtATime ==
    \A k \in QueryKeys :
        LET q == client.cache[k]
        IN  /\ Cardinality(q.inflight) <= 1
            /\ \A r \in q.inflight :
                  /\ r.n = Len(q.pages) + 1
                  /\ r.n > 1 => r.cursor = NextPageParam(q) /\ r.cursor # NoCursor
            /\ (q.pages # <<>> /\ NextPageParam(q) = NoCursor) =>
                  /\ q.inflight = {}
                  /\ VirtualCount(q) = ImageCount(q.pages)
                  /\ \A s \in client.sent : s.key = k => s.n <= Len(q.pages)

\* A query received a page with a cursor, fetched once more and reached the end,
\* while another query still has a next-page request in flight.
C27_Witness ==
    \E k, j \in QueryKeys :
        /\ Len(client.cache[k].pages) >= 2
        /\ NextPageParam(client.cache[k]) = NoCursor
        /\ \E r \in client.cache[j].inflight : r.n > 1

-----------------------------------------------------------------------------
\* C28: useScrapeJob keeps polling while the last fetched status is neither
\* 'completed' nor 'failed', every 2 s and every 3 s while it is 'processing';
\* once a terminal status has been fetched no timer is armed and no poll is
\* made; the images and scrape-jobs queries are invalidated exactly when the
\* fetched status has become 'completed'.
C28_PollsUntilTerminal ==
    /\ scrape.mounted =>
          scrape.interval = (IF scrape.data \in TerminalStatus THEN 0
                             ELSE IF scrape.data = "processing" THEN 3000
                             ELSE 2000)
    /\ scrape.poll.gap # 0 =>
          /\ scrape.poll.after \notin TerminalStatus
          /\ scrape.poll.gap = (IF scrape.poll.after = "processing" THEN 3000 ELSE 2000)
    /\ scrape.invalidated =
          (IF scrape.data = "completed" THEN {"images", "scrape-jobs"} ELSE {})

\* A poll made 3 s after the status 'processing' fetched 'completed', and the
\* two queries were invalidated.
C28_Witness ==
    /\ scrape.data = "completed"
    /\ scrape.poll = [after |-> "processing", gap |-> 3000]
    /\ scrape.invalidated = {"images", "scrape-jobs"}
    /\ scrape.interval = 0

-----------------------------------------------------------------------------
\* The calls on a job's column that have committed.
DoneCalls(id, column) ==
    {c \in JobCalls : /\ job.calls[c].pc = "done"
                      /\ job.calls[c].job = id
                      /\ job.calls[c].column = column}

RECURSIVE SumAmounts(_)
SumAmounts(cs) ==
    IF cs = {} THEN 0
    ELSE LET c == CHOOSE x \in cs : TRUE
         IN  job.calls[c].amount + SumAmounts(cs \ {c})

\* C29: concurrent increment_scrape_job calls never lose an update: every
\* counter of every job equals its initial value (NULL counted as 0) plus the
\* amounts of the calls committed on that job and column, and a counter no
\* call was committed on keeps its initial value.
C29_NoLostIncrement ==
    \A r \in job.rows, col \in Columns :
        r.counts[col] = (IF DoneCalls(r.id, col) = {}
                         THEN InitialCount(col)
                         ELSE Coalesce0(InitialCount(col)) + SumAmounts(DoneCalls(r.id, col)))

\* Every call has committed on the nullable counter of one job, which
\* started NULL, one of them with amount 2, while a second job exists.
C29_Witness ==
    \E r \in job.rows :
        /\ DoneCalls(r.id, "total_images") = JobCalls
        /\ Cardinality(job.rows) = 2
        /\ \E c \in JobCalls : job.calls[c].seen = NULL /\ job.calls[c].amount = 2
        /\ r.counts["total_images"] > 3

-----------------------------------------------------------------------------
\* C30: after every 401 the token is cleared and the cached auth state is
\* false; the interceptor started a navigation to the login route exactly when
\* the route was not the login route and no redirect was in progress; at most
\* one such navigation is in progress at a time, and the guard
\* redirectingToLogin is held exactly while it is, so it is released when the
\* navigation settles.
C30_OneRedirectAtATime ==
    /\ auth.navigating <= 1
    /\ auth.redirectingToLogin = (auth.navigating = 1)
    /\ auth.last.kind = "401" =>
          /\ ~auth.token
          /\ ~auth.authCache
          /\ auth.last.started = (~auth.last.onLogin /\ ~auth.last.redirecting)

\* A second 401 arrived while the redirect started by the first was still
\* in progress and started no navigation.
C30_Witness ==
    /\ auth.last = [kind |-> "401", onLogin |-> FALSE, redirecting |-> TRUE,
                     started |-> FALSE]
    /\ auth.navigating = 1
    /\ auth.redirectingToLogin
====
